---------------------------- MODULE Spec2Model ----------------------------
(***************************************************************************)
(* Model of the energy-contracts normalisation pipeline:                   *)
(*   - the tabular converters (flat-rate "base", dual-rate "peak-off-peak",*)
(*     calendar-tiered "tempo"), the static-catalog converter and its      *)
(*     variant without a subscription table;                               *)
(*   - the validator (process.test.js: validatePriceObject,                *)
(*     validateContractSpecificRequirements, runTests);                    *)
(*   - the aggregation step (process.js), which is not among the sources   *)
(*     and is modelled from the specification.                             *)
(*                                                                         *)
(* JavaScript values are records [t, s, n]: t is the typeof-like tag,      *)
(* s the text of a string, n the value of a number.  A text is a sequence  *)
(* of chunks: one chunk per character wherever the code looks at           *)
(* characters (dates, prices), one chunk for a whole token where the code  *)
(* only compares it or tests it for emptiness.                             *)
(***************************************************************************)
EXTENDS Integers, Sequences, FiniteSets, TLC

VARIABLES
    conv,        \* the converter being run (SpecConv)
    header,      \* header line of its CSV file, as the set of column names
    catalogIn,   \* contract.json / subscription.json read by a catalog converter
    lastRow,     \* the data row read most recently
    added,       \* number of records the most recent row appended
    nRows,       \* data rows read so far
    result,      \* the converter's `result` object: power level -> list of records
    cpc,         \* position of the converter: start, rows, returned, thrown
    files,       \* input files of one pipeline run (Spec)
    order,       \* order in which the aggregator invokes the converters
    done,        \* number of converters invoked so far
    aggregate,   \* the aggregator's merged output so far
    artifact,    \* contracts.json on disk
    verdict,     \* outcome of the validator (runTests)
    status,      \* process exit status
    pc,          \* position of the run
    dataset,     \* the class of outputs the validator is run on (SpecVal)
    objects,     \* the heap of a catalog converter: object id -> price object (SpecHeap)
    arrays,      \* its arrays: array id -> list of object ids
    refs,        \* the returned `result` object: power level -> array id
    snapshot,    \* the lists as they were when the converter returned
    touched,     \* power levels whose list the caller has mutated since
    nMut,        \* number of mutations so far
    hpc          \* position of the run on the heap: idle, start, returned

vars == <<conv, header, catalogIn, lastRow, added, nRows, result, cpc,
          files, order, done, aggregate, artifact, verdict, status, pc, dataset,
          objects, arrays, refs, snapshot, touched, nMut, hpc>>

convVars == <<conv, header, catalogIn, lastRow, added, nRows, result, cpc>>
runVars  == <<files, order, done, aggregate, artifact, verdict, status, pc, dataset>>
heapVars == <<objects, arrays, refs, snapshot, touched, nMut, hpc>>

-----------------------------------------------------------------------------
(* Bounds of the model *)

MaxRows == 2
MaxEntries == 2
MaxRecords == 2

-----------------------------------------------------------------------------
(* JavaScript values *)

Null      == [t |-> "null", s |-> <<>>, n |-> 0]
Undefined == [t |-> "undefined", s |-> <<>>, n |-> 0]
NaN       == [t |-> "nan", s |-> <<>>, n |-> 0]
Str(cs)   == [t |-> "string", s |-> cs, n |-> 0]
Num(k)    == [t |-> "number", s |-> <<>>, n |-> k]
Lit(a)    == Str(<<a>>)

Digit == {"0", "1", "2", "3", "4", "5", "6", "7", "8", "9"}

DigitVal(c) ==
    CASE c = "0" -> 0 [] c = "1" -> 1 [] c = "2" -> 2 [] c = "3" -> 3
      [] c = "4" -> 4 [] c = "5" -> 5 [] c = "6" -> 6 [] c = "7" -> 7
      [] c = "8" -> 8 [] c = "9" -> 9 [] OTHER -> 0

\* JavaScript truthiness of a value: !v is the negation
Truthy(v) ==
    CASE v.t = "string" -> v.s # <<>>
      [] v.t = "number" -> v.n # 0
      [] OTHER          -> FALSE

RECURSIVE Pow10(_)
Pow10(k) == IF k = 0 THEN 1 ELSE 10 * Pow10(k - 1)

RECURSIVE DigitsValue(_)
DigitsValue(cs) ==
    IF cs = <<>> THEN 0
    ELSE 10 * DigitsValue(SubSeq(cs, 1, Len(cs) - 1)) + DigitVal(cs[Len(cs)])

\* length of the longest prefix of cs made of digits
RECURSIVE DigitPrefix(_)
DigitPrefix(cs) ==
    IF cs = <<>> \/ cs[1] \notin Digit THEN 0 ELSE 1 + DigitPrefix(Tail(cs))

\* String.prototype.replace(",", "."): the first occurrence only
RECURSIVE ReplaceComma(_)
ReplaceComma(cs) ==
    IF cs = <<>> THEN <<>>
    ELSE IF cs[1] = "," THEN <<".">> \o Tail(cs)
    ELSE <<cs[1]>> \o ReplaceComma(Tail(cs))

\* parseFloat on an unsigned decimal text: the value is num / den, or NaN
\* when the text starts with no digit.  Signs, leading blanks and exponents
\* are not among the inputs of the model.
ParseFloat(cs) ==
    LET i    == DigitPrefix(cs)
        rest == SubSeq(cs, i + 1, Len(cs))
        k    == IF rest # <<>> /\ rest[1] = "." THEN DigitPrefix(Tail(rest)) ELSE 0
        frac == IF k = 0 THEN <<>> ELSE SubSeq(rest, 2, k + 1)
    IN IF i = 0 /\ k = 0
       THEN [nan |-> TRUE, num |-> 0, den |-> 1]
       ELSE [nan |-> FALSE,
             num |-> DigitsValue(SubSeq(cs, 1, i) \o frac),
             den |-> Pow10(k)]

\* Math.round(parseFloat(s.replace(",", ".")) * 10000), in exact arithmetic
ScaledPrice(cs) ==
    LET f == ParseFloat(ReplaceComma(cs))
    IN IF f.nan THEN NaN
       ELSE Num((2 * f.num * 10000 + f.den) \div (2 * f.den))

\* Math.round((parseFloat(s.replace(",", ".")) / 12) * 10000), in exact arithmetic
MonthlyScaledPrice(cs) ==
    LET f == ParseFloat(ReplaceComma(cs))
    IN IF f.nan THEN NaN
       ELSE Num((2 * f.num * 10000 + 12 * f.den) \div (24 * f.den))

-----------------------------------------------------------------------------
(* Dates *)

\* String.prototype.split("/")
RECURSIVE SplitSlash(_)
SplitSlash(cs) ==
    IF \A i \in 1..Len(cs) : cs[i] # "/" THEN <<cs>>
    ELSE LET i == CHOOSE j \in 1..Len(cs) :
                      cs[j] = "/" /\ \A m \in 1..(j - 1) : cs[m] # "/"
         IN <<SubSeq(cs, 1, i - 1)>> \o SplitSlash(SubSeq(cs, i + 1, Len(cs)))

\* String.prototype.padStart(2, "0")
PadStart2(cs) ==
    IF Len(cs) >= 2 THEN cs
    ELSE IF Len(cs) = 1 THEN <<"0">> \o cs
    ELSE <<"0", "0">>

UndefinedText == <<"u", "n", "d", "e", "f", "i", "n", "e", "d">>

\* convertToIsoDate(dateStr): [thrown, v].  With no "/" in the text the
\* destructured month is undefined and month.padStart raises a TypeError;
\* with one "/" the year is undefined and is printed as "undefined".
convertToIsoDate(cs) ==
    IF cs = <<>> THEN [thrown |-> FALSE, v |-> Null]
    ELSE LET parts == SplitSlash(cs)
         IN IF Len(parts) < 2 THEN [thrown |-> TRUE, v |-> Undefined]
            ELSE [thrown |-> FALSE,
                  v |-> Str((IF Len(parts) >= 3 THEN parts[3] ELSE UndefinedText)
                            \o <<"-">> \o PadStart2(parts[2])
                            \o <<"-">> \o PadStart2(parts[1]))]

-----------------------------------------------------------------------------
(* Canonical price records *)

PriceObject(contract, priceType, startIso, endIso, price, hourSlots, dayType) ==
    [contract   |-> contract,
     price_type |-> priceType,
     currency   |-> Lit("euro"),
     start_date |-> startIso,
     end_date   |-> endIso,
     price      |-> price,
     hour_slots |-> hourSlots,
     day_type   |-> dayType]

Consumption  == Lit("consumption")
Subscription == Lit("subscription")

offPeakSlots ==
    Lit("00:00,00:30,01:00,01:30,02:00,02:30,03:00,03:30,04:00,04:30,05:00,05:30,22:00,22:30,23:00,23:30")
peakSlots ==
    Lit("06:00,06:30,07:00,07:30,08:00,08:30,09:00,09:30,10:00,10:30,11:00,11:30,12:00,12:30,13:00,13:30,14:00,14:30,15:00,15:30,16:00,16:30,17:00,17:30,18:00,18:30,19:00,19:30,20:00,20:30,21:00,21:30")

\* result[key].push(...recs), creating the list on first use
Push(res, key, recs) ==
    IF key \in DOMAIN res
    THEN [res EXCEPT ![key] = @ \o recs]
    ELSE [k \in DOMAIN res \cup {key} |-> IF k = key THEN recs ELSE res[k]]

EmptyObject == [k \in {} |-> <<>>]

-----------------------------------------------------------------------------
(* Tabular converters.  A data row is [power, start, end, prices, fixe]:   *)
(* the cells P_SOUSCRITE, DATE_DEBUT, DATE_FIN, the PART_VARIABLE_*_TTC    *)
(* cells in the order the converter reads them, and PART_FIXE_TTC.  An     *)
(* empty text stands for an empty or absent cell (both are falsy).         *)

Kinds        == {"flat", "dual", "tiered", "catalog", "catalogNoSub"}
TabularKinds == {"flat", "dual", "tiered"}

RequiredColumns(kind) ==
    {"DATE_DEBUT", "DATE_FIN", "P_SOUSCRITE", "PART_FIXE_TTC"} \cup
    CASE kind = "flat"   -> {"PART_VARIABLE_TTC"}
      [] kind = "dual"   -> {"PART_VARIABLE_HC_TTC", "PART_VARIABLE_HP_TTC"}
      [] kind = "tiered" -> {"PART_VARIABLE_HCBleu_TTC", "PART_VARIABLE_HPBleu_TTC",
                             "PART_VARIABLE_HCBlanc_TTC", "PART_VARIABLE_HPBlanc_TTC",
                             "PART_VARIABLE_HCRouge_TTC", "PART_VARIABLE_HPRouge_TTC"}
      [] OTHER           -> {}

\* a variant of the header check that does not look for DATE_FIN
HeaderMissingNoDateFin(kind, hdr) ==
    \E c \in RequiredColumns(kind) \ {"DATE_FIN"} : c \notin hdr

\* headers.indexOf(...) === -1 for some required column
HeaderMissing(kind, hdr) == \E c \in RequiredColumns(kind) : c \notin hdr

\* "Skip rows with missing data"
BaseCsvSkip(row) ==
    \/ row.power = <<>> \/ row.start = <<>>
    \/ row.prices[1] = <<>> \/ row.fixe = <<>>

PeakOffPeakSkip(row) ==
    \/ row.power = <<>> \/ row.start = <<>>
    \/ row.prices[1] = <<>> \/ row.prices[2] = <<>>
    \/ row.fixe = <<>>

TempoSkip(row) ==
    \/ row.power = <<>> \/ row.start = <<>>
    \/ row.prices[1] = <<>> \/ row.prices[2] = <<>>
    \/ row.prices[3] = <<>> \/ row.prices[4] = <<>>
    \/ row.prices[5] = <<>> \/ row.prices[6] = <<>>
    \/ row.fixe = <<>>

\* a variant of BaseCsvRecords whose subscription object forgets the end date
BaseCsvRecordsOpenSubscription(row, startIso, endIso) ==
    << PriceObject(Lit("base"), Consumption, startIso, endIso,
                   ScaledPrice(row.prices[1]), Null, Null),
       PriceObject(Lit("base"), Subscription, startIso, Null,
                   MonthlyScaledPrice(row.fixe), Null, Null) >>

\* the price objects one row of Option_Base.csv yields
BaseCsvRecords(row, startIso, endIso) ==
    << PriceObject(Lit("base"), Consumption, startIso, endIso,
                   ScaledPrice(row.prices[1]), Null, Null),
       PriceObject(Lit("base"), Subscription, startIso, endIso,
                   MonthlyScaledPrice(row.fixe), Null, Null) >>

\* the price objects one row of Option_HPHC.csv yields
PeakOffPeakRecords(row, startIso, endIso) ==
    << PriceObject(Lit("peak-off-peak"), Consumption, startIso, endIso,
                   ScaledPrice(row.prices[1]), Lit("TO_REPLACE_OFF_PEAK"), Null),
       PriceObject(Lit("peak-off-peak"), Consumption, startIso, endIso,
                   ScaledPrice(row.prices[2]), Lit("TO_REPLACE_PEAK"), Null),
       PriceObject(Lit("peak-off-peak"), Subscription, startIso, endIso,
                   MonthlyScaledPrice(row.fixe), Null, Null) >>

\* a variant of TempoRecords whose red peak record is tagged as a white day
TempoRecordsRedAsWhite(row, startIso, endIso) ==
    << PriceObject(Lit("tempo"), Consumption, startIso, endIso,
                   ScaledPrice(row.prices[1]), offPeakSlots, Lit("blue")),
       PriceObject(Lit("tempo"), Consumption, startIso, endIso,
                   ScaledPrice(row.prices[2]), peakSlots, Lit("blue")),
       PriceObject(Lit("tempo"), Consumption, startIso, endIso,
                   ScaledPrice(row.prices[3]), offPeakSlots, Lit("white")),
       PriceObject(Lit("tempo"), Consumption, startIso, endIso,
                   ScaledPrice(row.prices[4]), peakSlots, Lit("white")),
       PriceObject(Lit("tempo"), Consumption, startIso, endIso,
                   ScaledPrice(row.prices[5]), offPeakSlots, Lit("red")),
       PriceObject(Lit("tempo"), Consumption, startIso, endIso,
                   ScaledPrice(row.prices[6]), peakSlots, Lit("white")),
       PriceObject(Lit("es-tempo"), Subscription, startIso, endIso,
                   MonthlyScaledPrice(row.fixe), Null, Null) >>

\* the price objects one row of Option_Tempo.csv yields
TempoRecords(row, startIso, endIso) ==
    << PriceObject(Lit("tempo"), Consumption, startIso, endIso,
                   ScaledPrice(row.prices[1]), offPeakSlots, Lit("blue")),
       PriceObject(Lit("tempo"), Consumption, startIso, endIso,
                   ScaledPrice(row.prices[2]), peakSlots, Lit("blue")),
       PriceObject(Lit("tempo"), Consumption, startIso, endIso,
                   ScaledPrice(row.prices[3]), offPeakSlots, Lit("white")),
       PriceObject(Lit("tempo"), Consumption, startIso, endIso,
                   ScaledPrice(row.prices[4]), peakSlots, Lit("white")),
       PriceObject(Lit("tempo"), Consumption, startIso, endIso,
                   ScaledPrice(row.prices[5]), offPeakSlots, Lit("red")),
       PriceObject(Lit("tempo"), Consumption, startIso, endIso,
                   ScaledPrice(row.prices[6]), peakSlots, Lit("red")),
       PriceObject(Lit("es-tempo"), Subscription, startIso, endIso,
                   MonthlyScaledPrice(row.fixe), Null, Null) >>

RowSkip(kind, row) ==
    CASE kind = "flat" -> BaseCsvSkip(row)
      [] kind = "dual" -> PeakOffPeakSkip(row)
      [] OTHER         -> TempoSkip(row)

RowRecords(kind, row, startIso, endIso) ==
    CASE kind = "flat" -> BaseCsvRecords(row, startIso, endIso)
      [] kind = "dual" -> PeakOffPeakRecords(row, startIso, endIso)
      [] OTHER         -> TempoRecords(row, startIso, endIso)

\* const endDateIso = endDate ? convertToIsoDate(endDate) : null
EndDateIso(cs) ==
    IF cs # <<>> THEN convertToIsoDate(cs) ELSE [thrown |-> FALSE, v |-> Null]

\* One iteration of the loop over the data rows: the row is skipped, or a
\* date conversion raises, or its price objects are pushed.
RowOutcome(kind, row) ==
    IF RowSkip(kind, row) THEN [how |-> "skip", recs |-> <<>>]
    ELSE LET s == convertToIsoDate(row.start)
             e == EndDateIso(row.end)
         IN IF s.thrown \/ e.thrown THEN [how |-> "throw", recs |-> <<>>]
            ELSE [how |-> "emit", recs |-> RowRecords(kind, row, s.v, e.v)]

\* The whole converter on a file [header, rows]: [thrown, result]
RECURSIVE ConvertRows(_, _, _)
ConvertRows(kind, rows, res) ==
    IF rows = <<>> THEN [thrown |-> FALSE, result |-> res]
    ELSE LET o == RowOutcome(kind, Head(rows))
         IN IF o.how = "throw" THEN [thrown |-> TRUE, result |-> EmptyObject]
            ELSE IF o.how = "skip" THEN ConvertRows(kind, Tail(rows), res)
            ELSE ConvertRows(kind, Tail(rows), Push(res, Head(rows).power, o.recs))

\* a variant of ConvertCsv whose `result` object outlives the call: the rows
\* are added to what the converter invoked before it left there
ConvertCsvSharedResult(kind, file) ==
    IF HeaderMissing(kind, file.header)
    THEN [thrown |-> TRUE, result |-> EmptyObject]
    ELSE ConvertRows(kind, file.rows,
                     IF aggregate = <<>> THEN EmptyObject
                     ELSE aggregate[Len(aggregate)].levels)

ConvertCsv(kind, file) ==
    IF HeaderMissing(kind, file.header)
    THEN [thrown |-> TRUE, result |-> EmptyObject]
    ELSE ConvertRows(kind, file.rows, EmptyObject)

-----------------------------------------------------------------------------
(* Static-catalog converters *)

MinPower == 3
MaxPower == 36

PowerText(k) ==
    LET d == [i \in 0..9 |-> CASE i = 0 -> "0" [] i = 1 -> "1" [] i = 2 -> "2"
                               [] i = 3 -> "3" [] i = 4 -> "4" [] i = 5 -> "5"
                               [] i = 6 -> "6" [] i = 7 -> "7" [] i = 8 -> "8"
                               [] OTHER -> "9"]
    IN IF k < 10 THEN <<d[k]>> ELSE <<d[k \div 10], d[k % 10]>>

\* the literal list of subscribed power levels of the variant
subscribedPowers == {PowerText(k) : k \in MinPower..MaxPower}

\* contract.json + subscription.json: one list per power level of the
\* subscription table, the consumption entries first
\* a variant of CatalogResult that appends one power level's subscription
\* entries under every power level
CatalogResultOneSubscription(contractData, subscriptionData) ==
    [power \in DOMAIN subscriptionData |->
        contractData \o subscriptionData[CHOOSE p \in DOMAIN subscriptionData : TRUE]]

CatalogResult(contractData, subscriptionData) ==
    [power \in DOMAIN subscriptionData |->
        contractData \o subscriptionData[power]]

\* contract.json alone: the same copied list under every literal power level
CatalogNoSubResult(contractData) ==
    [power \in subscribedPowers |-> contractData]

-----------------------------------------------------------------------------
(* The validator (process.test.js) *)

NullText == <<"n", "u", "l", "l">>
NaNText  == <<"N", "a", "N">>

RECURSIVE NatText(_)
NatText(k) ==
    IF k < 10 THEN PowerText(k) ELSE NatText(k \div 10) \o PowerText(k % 10)

\* String(v), as a template literal prints v
Text(v) ==
    CASE v.t = "string"    -> v.s
      [] v.t = "null"      -> NullText
      [] v.t = "undefined" -> UndefinedText
      [] v.t = "nan"       -> NaNText
      [] OTHER             -> IF v.n < 0 THEN <<"-">> \o NatText(0 - v.n)
                              ELSE NatText(v.n)

\* /^\d{4}-\d{2}-\d{2}$/.test(v)
dateRegexTest(v) ==
    LET cs == Text(v)
    IN /\ Len(cs) = 10
       /\ \A i \in {1, 2, 3, 4, 6, 7, 9, 10} : cs[i] \in Digit
       /\ cs[5] = "-" /\ cs[8] = "-"

requiredFields == <<"contract", "price_type", "currency", "start_date", "price">>

validContracts == {Lit("base"), Lit("peak-off-peak"), Lit("edf-tempo")}

\* `field in priceObj`: a field the JSON object does not hold is Undefined
HasField(priceObj, field) ==
    CASE field = "contract"   -> priceObj.contract # Undefined
      [] field = "price_type" -> priceObj.price_type # Undefined
      [] field = "currency"   -> priceObj.currency # Undefined
      [] field = "start_date" -> priceObj.start_date # Undefined
      [] OTHER                -> priceObj.price # Undefined

\* the end_date check of validatePriceObject
EndDateInvalid(priceObj) ==
    Truthy(priceObj.end_date) /\ ~dateRegexTest(priceObj.end_date)

\* validatePriceObject(priceObj, ...): "ok", or the check that throws
validatePriceObject(priceObj) ==
    LET missing == {i \in 1..Len(requiredFields) : ~HasField(priceObj, requiredFields[i])}
    IN IF missing # {}
       THEN "missing-field"
       ELSE IF priceObj.contract.t # "string" THEN "contract-not-string"
       ELSE IF priceObj.contract \notin validContracts THEN "contract-value"
       ELSE IF priceObj.price_type \notin {Consumption, Subscription} THEN "price_type"
       ELSE IF priceObj.currency # Lit("euro") THEN "currency"
       ELSE IF \/ priceObj.price.t \notin {"number", "nan"}
               \/ (priceObj.price.t = "number" /\ priceObj.price.n < 0)
            THEN "price"
       ELSE IF ~dateRegexTest(priceObj.start_date) THEN "start_date"
       ELSE IF EndDateInvalid(priceObj) THEN "end_date"
       ELSE "ok"

\* prices.filter((p) => p.price_type === t)
RECURSIVE FilterType(_, _)
FilterType(prices, t) ==
    IF prices = <<>> THEN <<>>
    ELSE (IF Head(prices).price_type = t THEN <<Head(prices)>> ELSE <<>>)
         \o FilterType(Tail(prices), t)

\* a variant of SubscriptionCheck that lets a price of 0 through
SubscriptionCheckNegativeOnly(price) ==
    IF price.hour_slots # Null THEN "subscription-hour_slots"
    ELSE IF price.day_type # Null THEN "subscription-day_type"
    ELSE IF price.price.t = "number" /\ price.price.n < 0 THEN "subscription-price"
    ELSE "ok"

\* the checks on one subscription price
SubscriptionCheck(price) ==
    IF price.hour_slots # Null THEN "subscription-hour_slots"
    ELSE IF price.day_type # Null THEN "subscription-day_type"
    ELSE IF price.price.t = "number" /\ price.price.n <= 0 THEN "subscription-price"
    ELSE "ok"

\* a variant of ConsumptionCheck whose peak-off-peak case forgets day_type
ConsumptionCheckNoDayType(price, contractType) ==
    CASE contractType = "edf-base" ->
            IF price.hour_slots # Null THEN "base-hour_slots"
            ELSE IF price.day_type # Null THEN "base-day_type"
            ELSE "ok"
      [] contractType = "edf-peak-off-peak" ->
            IF price.hour_slots \notin {Lit("TO_REPLACE_PEAK"), Lit("TO_REPLACE_OFF_PEAK")}
            THEN "peak-off-peak-hour_slots"
            ELSE "ok"
      [] contractType = "edf-tempo" ->
            IF price.day_type \notin {Lit("blue"), Lit("white"), Lit("red")}
            THEN "tempo-day_type"
            ELSE IF price.hour_slots.t # "string" \/ price.hour_slots.s = <<>>
            THEN "tempo-hour_slots"
            ELSE "ok"
      [] OTHER -> "ok"

\* the switch (contractType) on one consumption price
ConsumptionCheck(price, contractType) ==
    CASE contractType = "edf-base" ->
            IF price.hour_slots # Null THEN "base-hour_slots"
            ELSE IF price.day_type # Null THEN "base-day_type"
            ELSE "ok"
      [] contractType = "edf-peak-off-peak" ->
            IF price.hour_slots \notin {Lit("TO_REPLACE_PEAK"), Lit("TO_REPLACE_OFF_PEAK")}
            THEN "peak-off-peak-hour_slots"
            ELSE IF price.day_type # Null THEN "peak-off-peak-day_type"
            ELSE "ok"
      [] contractType = "edf-tempo" ->
            IF price.day_type \notin {Lit("blue"), Lit("white"), Lit("red")}
            THEN "tempo-day_type"
            ELSE IF price.hour_slots.t # "string" \/ price.hour_slots.s = <<>>
            THEN "tempo-hour_slots"
            ELSE "ok"
      [] OTHER -> "ok"

\* first element of a list the check f rejects: [kind, index], index 0 when none
RECURSIVE FirstSubscriptionError(_)
FirstSubscriptionError(prices) ==
    IF prices = <<>> THEN "ok"
    ELSE IF SubscriptionCheck(Head(prices)) # "ok" THEN SubscriptionCheck(Head(prices))
    ELSE FirstSubscriptionError(Tail(prices))

RECURSIVE FirstConsumptionError(_, _)
FirstConsumptionError(prices, contractType) ==
    IF prices = <<>> THEN "ok"
    ELSE IF ConsumptionCheck(Head(prices), contractType) # "ok"
    THEN ConsumptionCheck(Head(prices), contractType)
    ELSE FirstConsumptionError(Tail(prices), contractType)

\* validateContractSpecificRequirements(prices, contractType): "ok", or the
\* check that throws
validateContractSpecificRequirements(prices, contractType) ==
    LET consumptionPrices  == FilterType(prices, Consumption)
        subscriptionPrices == FilterType(prices, Subscription)
    IN IF subscriptionPrices = <<>> THEN "no-subscription"
       ELSE IF FirstSubscriptionError(subscriptionPrices) # "ok"
       THEN FirstSubscriptionError(subscriptionPrices)
       ELSE FirstConsumptionError(consumptionPrices, contractType)

\* The error runTests reports: the check that threw and what its message
\* names of the place: the contract type ("" when it names none), the power
\* level (<<>> when none) and the record index (-1 when none).
Err(kind, ct, power, index) ==
    [kind |-> kind, ct |-> ct, power |-> power, index |-> index]

NoError == Err("none", "", <<>>, -1)
Pass    == Err("pass", "", <<>>, -1)

SubscriptionKinds ==
    {"no-subscription", "subscription-hour_slots", "subscription-day_type",
     "subscription-price"}

\* Object.keys of an object whose keys are canonical integer texts: ascending
RECURSIVE KeysInOrder(_)
KeysInOrder(S) ==
    IF S = {} THEN <<>>
    ELSE LET m == CHOOSE x \in S : \A y \in S : DigitsValue(x) <= DigitsValue(y)
         IN <<m>> \o KeysInOrder(S \ {m})

\* a variant of ValidateLevel that reports the last invalid price object
ValidateLevelLastInvalid(contractType, power, prices) ==
    LET bad == {i \in 1..Len(prices) : validatePriceObject(prices[i]) # "ok"}
    IN IF prices = <<>> THEN Err("empty", contractType, power, -1)
       ELSE IF bad # {}
       THEN LET i == CHOOSE j \in bad : \A m \in bad : j >= m
            IN Err(validatePriceObject(prices[i]), contractType, power, i - 1)
       ELSE LET c == validateContractSpecificRequirements(prices, contractType)
            IN IF c = "ok" THEN NoError
               ELSE IF c \in SubscriptionKinds THEN Err(c, contractType, <<>>, -1)
               ELSE Err(c, "", <<>>, -1)

\* the body of the loop over the power levels of one contract type (step 5)
ValidateLevel(contractType, power, prices) ==
    LET bad == {i \in 1..Len(prices) : validatePriceObject(prices[i]) # "ok"}
    IN IF prices = <<>> THEN Err("empty", contractType, power, -1)
       ELSE IF bad # {}
       THEN LET i == CHOOSE j \in bad : \A m \in bad : j <= m
            IN Err(validatePriceObject(prices[i]), contractType, power, i - 1)
       ELSE LET c == validateContractSpecificRequirements(prices, contractType)
            IN IF c = "ok" THEN NoError
               ELSE IF c \in SubscriptionKinds THEN Err(c, contractType, <<>>, -1)
               ELSE Err(c, "", <<>>, -1)

\* the date ranges of the consumption prices with no subscription price (step 7)
ParityLevel(contractType, power, prices) ==
    LET key(p) == Text(p.start_date) \o <<"|">> \o Text(p.end_date)
        subs   == {key(prices[j]) : j \in {m \in 1..Len(prices) :
                                              prices[m].price_type = Subscription}}
    IN IF \E i \in 1..Len(prices) :
             prices[i].price_type = Consumption /\ key(prices[i]) \notin subs
       THEN Err("parity", contractType, power, -1)
       ELSE NoError

\* a variant of WalkLevels that looks at the first power level only
WalkFirstLevel(parity, contractType, levels, keys) ==
    IF keys = <<>> THEN NoError
    ELSE IF parity
    THEN ParityLevel(contractType, Head(keys), levels[Head(keys)])
    ELSE ValidateLevel(contractType, Head(keys), levels[Head(keys)])

\* first error of a check over the power levels `keys` of one contract type
RECURSIVE WalkLevels(_, _, _, _)
WalkLevels(parity, contractType, levels, keys) ==
    IF keys = <<>> THEN NoError
    ELSE LET e == IF parity
                  THEN ParityLevel(contractType, Head(keys), levels[Head(keys)])
                  ELSE ValidateLevel(contractType, Head(keys), levels[Head(keys)])
         IN IF e # NoError THEN e
            ELSE WalkLevels(parity, contractType, levels, Tail(keys))

\* first error of a check over the contract types, in key order
RECURSIVE WalkContracts(_, _)
WalkContracts(parity, data) ==
    IF data = <<>> THEN NoError
    ELSE LET e == WalkLevels(parity, Head(data).name, Head(data).levels,
                             KeysInOrder(DOMAIN Head(data).levels))
         IN IF e # NoError THEN e ELSE WalkContracts(parity, Tail(data))

expectedContracts == <<"edf-base", "edf-peak-off-peak", "edf-tempo">>

\* step 6: the first expected contract type the output lacks
ExpectedCheck(data) ==
    LET names   == {data[i].name : i \in 1..Len(data)}
        missing == {i \in 1..Len(expectedContracts) : expectedContracts[i] \notin names}
    IN IF missing = {} THEN NoError
       ELSE Err("missing-contract",
                expectedContracts[CHOOSE j \in missing : \A m \in missing : j <= m],
                <<>>, -1)

\* step 8: the number of subscription prices of the whole output
TotalSubscription(data) ==
    \E i \in 1..Len(data) : \E power \in DOMAIN data[i].levels :
        FilterType(data[i].levels[power], Subscription) # <<>>

\* a variant of ExitStatus that ends every run with status 0
ExitStatusZero(v) == 0

\* the process status runTests ends with: process.exit(1) in its catch block
ExitStatus(v) == IF v = Pass THEN 0 ELSE 1

\* a variant of runTests that checks coverage parity (step 7) before the
\* expected contract types (step 6)
runTestsParityFirst(file) ==
    IF ~file.exists THEN Err("not-created", "", <<>>, -1)
    ELSE IF WalkContracts(FALSE, file.data) # NoError
    THEN WalkContracts(FALSE, file.data)
    ELSE IF WalkContracts(TRUE, file.data) # NoError
    THEN WalkContracts(TRUE, file.data)
    ELSE IF ExpectedCheck(file.data) # NoError THEN ExpectedCheck(file.data)
    ELSE IF ~TotalSubscription(file.data)
    THEN Err("no-subscription-prices", "", <<>>, -1)
    ELSE Pass

\* a variant of runTests without step 7
runTestsNoParity(file) ==
    IF ~file.exists THEN Err("not-created", "", <<>>, -1)
    ELSE IF WalkContracts(FALSE, file.data) # NoError
    THEN WalkContracts(FALSE, file.data)
    ELSE IF ExpectedCheck(file.data) # NoError THEN ExpectedCheck(file.data)
    ELSE IF ~TotalSubscription(file.data)
    THEN Err("no-subscription-prices", "", <<>>, -1)
    ELSE Pass

\* runTests once process.js has run: the first error, or Pass
runTests(file) ==
    IF ~file.exists THEN Err("not-created", "", <<>>, -1)
    ELSE IF WalkContracts(FALSE, file.data) # NoError
    THEN WalkContracts(FALSE, file.data)
    ELSE IF ExpectedCheck(file.data) # NoError THEN ExpectedCheck(file.data)
    ELSE IF WalkContracts(TRUE, file.data) # NoError
    THEN WalkContracts(TRUE, file.data)
    ELSE IF ~TotalSubscription(file.data)
    THEN Err("no-subscription-prices", "", <<>>, -1)
    ELSE Pass

-----------------------------------------------------------------------------
(* Inputs of the model *)

CsvD1       == <<"0", "5", "/", "0", "3", "/", "2", "0", "2", "4">>
CsvD2       == <<"3", "1", "/", "1", "2", "/", "2", "0", "2", "4">>
NoSlashDate == <<"2", "0", "2", "4", "0", "3", "0", "5">>
IsoD1       == <<"2", "0", "2", "4", "-", "0", "3", "-", "0", "5">>
IsoD2       == <<"2", "0", "2", "4", "-", "1", "2", "-", "3", "1">>

PowerCells == {<<"6">>, <<"9">>}
FixeCell   == <<"1", "2", "0", ",", "0", "0">>
OffPeakCell == <<"0", ",", "1", "2", "3", "4">>
PeakCell    == <<"0", ",", "2", "3", "4", "5">>
TieredCell(i) ==
    <<"0", ",", "1", CASE i = 1 -> "1" [] i = 2 -> "2" [] i = 3 -> "3"
                       [] i = 4 -> "4" [] i = 5 -> "5" [] OTHER -> "6">>

\* price cells of a row: all filled, all empty, or exactly one left empty
PriceCells(kind) ==
    LET n    == CASE kind = "flat" -> 1 [] kind = "dual" -> 2 [] OTHER -> 6
        full == [i \in 1..n |->
                    CASE kind = "flat" -> OffPeakCell
                      [] kind = "dual" -> IF i = 1 THEN OffPeakCell ELSE PeakCell
                      [] OTHER         -> TieredCell(i)]
    IN {full, [i \in 1..n |-> <<>>]}
       \cup {[full EXCEPT ![j] = <<>>] : j \in 1..n}

Rows(kind) ==
    [power  : PowerCells \cup {<<>>},
     start  : {<<>>, CsvD1, NoSlashDate},
     end    : {<<>>, CsvD2, NoSlashDate},
     prices : PriceCells(kind),
     fixe   : {<<>>, FixeCell}]

NoRow == [power |-> <<>>, start |-> <<>>, end |-> <<>>, prices |-> <<>>, fixe |-> <<>>]

Headers(kind) ==
    {RequiredColumns(kind)} \cup
    {RequiredColumns(kind) \ {c} : c \in RequiredColumns(kind)}

SeqsUpTo(S, n) == UNION {[1..k -> S] : k \in 0..n}

CatCons(endIso) ==
    PriceObject(Lit("base"), Consumption, Str(IsoD1), endIso, Num(1234), Null, Null)
CatSub(endIso) ==
    PriceObject(Lit("base"), Subscription, Str(IsoD1), endIso, Num(100000), Null, Null)

ContractEntries == {CatCons(Null), CatCons(Str(IsoD2)), CatSub(Null)}
SubEntries      == {CatSub(Null), CatSub(Str(IsoD2))}

ContractFiles == SeqsUpTo(ContractEntries, MaxEntries)
SubscriptionFiles ==
    UNION {[P -> SeqsUpTo(SubEntries, MaxEntries)] : P \in SUBSET PowerCells}

NoCatalog == [contract |-> <<>>, subscription |-> EmptyObject]

\* a class of files the validator is run on: the contract types of the file
\* in key order, the places records are put at, the records put there
Dataset(name, keys, cts, powers, recs) ==
    [name |-> name, keys |-> keys, slots |-> cts \X powers, recs |-> recs]

NoDataset == Dataset("none", <<>>, {}, {}, {})

\* no contracts.json on disk
NoArtifact == [exists |-> FALSE, data |-> <<>>]

-----------------------------------------------------------------------------
(* One converter run on one input (SpecConv) *)

\* no catalog converter is run on the heap
NoHeap ==
    /\ objects = <<>> /\ arrays = <<>> /\ refs = EmptyObject
    /\ snapshot = EmptyObject /\ touched = {} /\ nMut = 0 /\ hpc = "idle"

IdleRun ==
    /\ files = <<>> /\ order = <<>> /\ done = 0
    /\ aggregate = <<>> /\ artifact = NoArtifact
    /\ verdict = NoError /\ status = 0 /\ pc = "idle"
    /\ dataset = NoDataset

InitConv ==
    /\ conv \in Kinds
    /\ header = {}
    /\ catalogIn = NoCatalog
    /\ lastRow = NoRow
    /\ added = 0
    /\ nRows = 0
    /\ result = EmptyObject
    /\ cpc = "start"
    /\ IdleRun
    /\ NoHeap

\* lines[0] is split and the required columns are looked up
ReadHeader ==
    /\ conv \in TabularKinds
    /\ cpc = "start"
    /\ \E h \in Headers(conv) :
          /\ header' = h
          /\ cpc' = IF HeaderMissing(conv, h) THEN "thrown" ELSE "rows"
    /\ UNCHANGED <<conv, catalogIn, lastRow, added, nRows, result>>
    /\ UNCHANGED runVars
    /\ UNCHANGED heapVars

\* one iteration of the loop over the data rows
ReadRow ==
    /\ conv \in TabularKinds
    /\ cpc = "rows"
    /\ nRows < MaxRows
    /\ \E row \in Rows(conv) :
          LET o == RowOutcome(conv, row)
          IN /\ lastRow' = row
             /\ added' = Len(o.recs)
             /\ result' = IF o.how = "emit" THEN Push(result, row.power, o.recs)
                          ELSE result
             /\ cpc' = IF o.how = "throw" THEN "thrown" ELSE "rows"
    /\ nRows' = nRows + 1
    /\ UNCHANGED <<conv, header, catalogIn>>
    /\ UNCHANGED runVars
    /\ UNCHANGED heapVars

\* the loop ends: return result
ReturnResult ==
    /\ conv \in TabularKinds
    /\ cpc = "rows"
    /\ cpc' = "returned"
    /\ UNCHANGED <<conv, header, catalogIn, lastRow, added, nRows, result>>
    /\ UNCHANGED runVars
    /\ UNCHANGED heapVars

LoadCatalog ==
    /\ conv = "catalog"
    /\ cpc = "start"
    /\ \E cd \in ContractFiles, sd \in SubscriptionFiles :
          /\ catalogIn' = [contract |-> cd, subscription |-> sd]
          /\ result' = CatalogResult(cd, sd)
    /\ cpc' = "returned"
    /\ UNCHANGED <<conv, header, lastRow, added, nRows>>
    /\ UNCHANGED runVars
    /\ UNCHANGED heapVars

LoadCatalogNoSub ==
    /\ conv = "catalogNoSub"
    /\ cpc = "start"
    /\ \E cd \in ContractFiles :
          /\ catalogIn' = [contract |-> cd, subscription |-> EmptyObject]
          /\ result' = CatalogNoSubResult(cd)
    /\ cpc' = "returned"
    /\ UNCHANGED <<conv, header, lastRow, added, nRows>>
    /\ UNCHANGED runVars
    /\ UNCHANGED heapVars

\* JSON.parse raises on a malformed file; the catch block rethrows
CatalogParseError ==
    /\ conv \in {"catalog", "catalogNoSub"}
    /\ cpc = "start"
    /\ cpc' = "thrown"
    /\ UNCHANGED <<conv, header, catalogIn, lastRow, added, nRows, result>>
    /\ UNCHANGED runVars
    /\ UNCHANGED heapVars

NextConv ==
    \/ ReadHeader
    \/ ReadRow
    \/ ReturnResult
    \/ LoadCatalog
    \/ LoadCatalogNoSub
    \/ CatalogParseError

SpecConv == InitConv /\ [][NextConv]_vars

-----------------------------------------------------------------------------
(* The validator on a class of outputs (SpecVal).  contracts.json is        *)
(* [exists, data]; data lists the contract types in key order, each with   *)
(* its object of power levels.                                             *)

AllContracts == <<"edf-base", "edf-peak-off-peak", "edf-tempo", "alpiq-base">>

Shape(hourSlots, dayType) ==
    PriceObject(Lit("base"), Consumption, Str(IsoD1), Null, Num(1234),
                hourSlots, dayType)

ShapeRecords ==
    {Shape(Null, Null), Shape(Lit("TO_REPLACE_PEAK"), Null),
     Shape(Lit("TO_REPLACE_OFF_PEAK"), Null), Shape(peakSlots, Lit("blue")),
     Shape(offPeakSlots, Lit("red")), Shape(peakSlots, Lit("white")),
     Shape(Null, Lit("blue")), Shape(Lit("TO_REPLACE_PEAK"), Lit("blue")),
     Shape(peakSlots, Null), Shape(Str(<<>>), Lit("blue")),
     Shape(peakSlots, Lit("green")), Shape(Str(<<>>), Null)}

BadSubscriptions ==
    {[CatSub(Null) EXCEPT !.hour_slots = Lit("TO_REPLACE_PEAK")],
     [CatSub(Null) EXCEPT !.hour_slots = Undefined],
     [CatSub(Null) EXCEPT !.day_type = Lit("blue")],
     [CatSub(Null) EXCEPT !.price = Num(0)]}

FieldRecords ==
    {[CatSub(Null) EXCEPT !.contract = v] :
        v \in {Undefined, Null, Num(7), Lit("tempo"), Lit("es-tempo")}}
    \cup {[CatSub(Null) EXCEPT !.price_type = v] : v \in {Undefined, Lit("other")}}
    \cup {[CatSub(Null) EXCEPT !.currency = v] : v \in {Undefined, Lit("usd")}}
    \cup {[CatSub(Null) EXCEPT !.price = v] :
             v \in {Undefined, Null, Str(<<"1", "2">>), Num(-1)}}
    \cup {[CatSub(Null) EXCEPT !.start_date = v] :
             v \in {Undefined, Null, Str(NoSlashDate),
                    Str(UndefinedText \o <<"-", "0", "3", "-", "0", "5">>)}}
    \cup {[CatSub(Null) EXCEPT !.end_date = v] :
             v \in {Undefined, Str(<<>>), Str(IsoD2), Str(NoSlashDate), Num(0), Num(7)}}

Without(keys, ct) == SelectSeq(keys, LAMBDA k : k # ct)

OrderRecords ==
    {CatSub(Null), CatCons(Null), CatCons(Str(IsoD2)),
     [CatSub(Null) EXCEPT !.currency = Lit("usd")],
     Shape(Lit("TO_REPLACE_PEAK"), Null),
     [CatSub(Null) EXCEPT !.price = Num(0)]}

Datasets ==
    {Dataset("shapes", AllContracts,
             {"edf-base", "edf-peak-off-peak", "edf-tempo", "alpiq-base"},
             {<<"6">>}, {CatSub(Null)} \cup ShapeRecords),
     Dataset("cross", AllContracts, {"edf-base", "alpiq-base"}, PowerCells,
             {CatSub(Null), CatSub(Str(IsoD2)), CatCons(Null), CatCons(Str(IsoD2)),
              CatCons(Str(<<>>))} \cup BadSubscriptions),
     Dataset("fields", AllContracts, {"edf-tempo"}, PowerCells,
             {CatSub(Null)} \cup FieldRecords),
     Dataset("order", AllContracts, {"edf-base", "edf-tempo", "alpiq-base"},
             PowerCells, OrderRecords),
     Dataset("order-reversed",
             <<"alpiq-base", "edf-tempo", "edf-peak-off-peak", "edf-base">>,
             {"edf-base", "edf-tempo", "alpiq-base"}, PowerCells, OrderRecords)}
    \cup {Dataset("lacking", Without(AllContracts, ct),
                  {"edf-base", "edf-peak-off-peak", "edf-tempo"} \ {ct}, {<<"6">>},
                  {CatSub(Null), CatCons(Null), CatCons(Str(IsoD2)),
                   [CatSub(Null) EXCEPT !.currency = Lit("usd")]}) :
             ct \in {"edf-base", "edf-peak-off-peak", "edf-tempo", "alpiq-base"}}

\* number of the entry of contract type ct in data
EntryOf(data, ct) == CHOOSE i \in 1..Len(data) : data[i].name = ct

RECURSIVE SumOver(_, _)
SumOver(f, S) ==
    IF S = {} THEN 0
    ELSE LET x == CHOOSE y \in S : TRUE IN f[x] + SumOver(f, S \ {x})

\* records of the file, an empty power level counting for one
FileSize(data) ==
    SumOver([i \in 1..Len(data) |->
                SumOver([power \in DOMAIN data[i].levels |->
                            IF data[i].levels[power] = <<>> THEN 1
                            ELSE Len(data[i].levels[power])],
                        DOMAIN data[i].levels)],
            1..Len(data))

InitVal ==
    /\ conv = "flat" /\ header = {} /\ catalogIn = NoCatalog
    /\ lastRow = NoRow /\ added = 0 /\ nRows = 0
    /\ result = EmptyObject /\ cpc = "start"
    /\ files = <<>> /\ order = <<>> /\ done = 0 /\ aggregate = <<>>
    /\ dataset \in Datasets
    /\ artifact = [exists |-> TRUE,
                   data |-> [i \in 1..Len(dataset.keys) |->
                                [name |-> dataset.keys[i], levels |-> EmptyObject]]]
    /\ verdict = NoError /\ status = 0 /\ pc = "build"
    /\ NoHeap

\* the file holds one more power level, with an empty list
AddLevel ==
    /\ pc = "build"
    /\ FileSize(artifact.data) < MaxRecords
    /\ \E slot \in dataset.slots :
          LET i == EntryOf(artifact.data, slot[1])
          IN /\ slot[2] \notin DOMAIN artifact.data[i].levels
             /\ artifact' = [artifact EXCEPT
                               !.data[i].levels = Push(@, slot[2], <<>>)]
    /\ UNCHANGED convVars
    /\ UNCHANGED heapVars
    /\ UNCHANGED <<files, order, done, aggregate, verdict, status, pc, dataset>>

\* the file holds one more record
AddRecord ==
    /\ pc = "build"
    /\ FileSize(artifact.data) < MaxRecords
    /\ \E slot \in dataset.slots, r \in dataset.recs :
          LET i == EntryOf(artifact.data, slot[1])
          IN artifact' = [artifact EXCEPT
                            !.data[i].levels = Push(@, slot[2], <<r>>)]
    /\ UNCHANGED convVars
    /\ UNCHANGED heapVars
    /\ UNCHANGED <<files, order, done, aggregate, verdict, status, pc, dataset>>

\* steps 3 to 8 of runTests on the file; process.exit(1) in the catch block
Validate ==
    /\ pc = "build"
    /\ verdict' = runTests(artifact)
    /\ status' = ExitStatus(verdict')
    /\ pc' = "done"
    /\ UNCHANGED convVars
    /\ UNCHANGED heapVars
    /\ UNCHANGED <<files, order, done, aggregate, artifact, dataset>>

NextVal == AddLevel \/ AddRecord \/ Validate

SpecVal == InitVal /\ [][NextVal]_vars

-----------------------------------------------------------------------------
(* One run of the pipeline (Spec): process.js invokes the registered       *)
(* converters and writes contracts.json; runTests runs process.js and      *)
(* validates the file.  process.js is modelled from the specification.     *)

Registry ==
    << [name |-> "edf-base",          kind |-> "flat"],
       [name |-> "edf-peak-off-peak", kind |-> "dual"],
       [name |-> "edf-tempo",         kind |-> "tiered"],
       [name |-> "alpiq-base",        kind |-> "catalogNoSub"],
       [name |-> "catalog-base",      kind |-> "catalog"] >>

File(hdr, rows, contract, subscription, malformed) ==
    [header |-> hdr, rows |-> rows, contract |-> contract,
     subscription |-> subscription, malformed |-> malformed]

CsvFile(hdr, rows) == File(hdr, rows, <<>>, EmptyObject, FALSE)
JsonFiles(contract, subscription) == File({}, <<>>, contract, subscription, FALSE)
MalformedJson == File({}, <<>>, <<>>, EmptyObject, TRUE)

GoodRow(kind) ==
    [power |-> <<"6">>, start |-> CsvD1, end |-> <<>>,
     prices |-> CHOOSE c \in PriceCells(kind) : \A i \in 1..Len(c) : c[i] # <<>>,
     fixe |-> FixeCell]

\* the files one converter may find
FilesOf(kind) ==
    CASE kind \in TabularKinds ->
            {CsvFile(RequiredColumns(kind), <<>>),
             CsvFile(RequiredColumns(kind), <<GoodRow(kind)>>)}
            \cup (IF kind = "tiered"
                  THEN {CsvFile(RequiredColumns(kind) \ {"PART_FIXE_TTC"},
                                <<GoodRow(kind)>>)}
                  ELSE {})
            \cup (IF kind = "flat"
                  THEN {CsvFile(RequiredColumns(kind),
                                <<[GoodRow(kind) EXCEPT !.fixe = <<"0">>]>>),
                        CsvFile(RequiredColumns(kind),
                                <<[GoodRow(kind) EXCEPT !.start = NoSlashDate]>>),
                        CsvFile(RequiredColumns(kind),
                                <<[GoodRow(kind) EXCEPT !.fixe = <<"x">>]>>)}
                  ELSE {})
      [] kind = "catalog" ->
            {MalformedJson,
             JsonFiles(<<CatCons(Null)>>, (<<"6">> :> <<CatSub(Null)>>)),
             JsonFiles(<<CatCons(Str(IsoD2))>>, (<<"6">> :> <<CatSub(Null)>>))}
      [] OTHER ->
            {JsonFiles(<<CatCons(Null)>>, EmptyObject),
             JsonFiles(<<CatCons(Null), CatSub(Null)>>, EmptyObject)}

\* one converter on its file: [thrown, result]
ConvertFile(kind, file) ==
    CASE kind \in TabularKinds -> ConvertCsv(kind, file)
      [] kind = "catalog" ->
            IF file.malformed THEN [thrown |-> TRUE, result |-> EmptyObject]
            ELSE [thrown |-> FALSE,
                  result |-> CatalogResult(file.contract, file.subscription)]
      [] OTHER ->
            IF file.malformed THEN [thrown |-> TRUE, result |-> EmptyObject]
            ELSE [thrown |-> FALSE, result |-> CatalogNoSubResult(file.contract)]

\* JSON.stringify then JSON.parse of a price object: NaN is written as null
Serialized(r) == IF r.price = NaN THEN [r EXCEPT !.price = Null] ELSE r

SerializedData(data) ==
    [i \in 1..Len(data) |->
        [name   |-> data[i].name,
         levels |-> [power \in DOMAIN data[i].levels |->
                        [k \in 1..Len(data[i].levels[power]) |->
                            Serialized(data[i].levels[power][k])]]]]

\* the invocation orders considered: the registry order, its rotations
\* and their reversals
Orders ==
    {p \in [1..Len(Registry) -> 1..Len(Registry)] :
        \E k \in 1..Len(Registry) :
            \/ \A i \in 1..Len(Registry) : p[i] = ((i + k) % Len(Registry)) + 1
            \/ \A i \in 1..Len(Registry) :
                   p[i] = ((k + Len(Registry) - i) % Len(Registry)) + 1}

Init ==
    /\ conv = "flat" /\ header = {} /\ catalogIn = NoCatalog
    /\ lastRow = NoRow /\ added = 0 /\ nRows = 0
    /\ result = EmptyObject /\ cpc = "start"
    /\ dataset = NoDataset
    /\ \E f1 \in FilesOf(Registry[1].kind), f2 \in FilesOf(Registry[2].kind),
          f3 \in FilesOf(Registry[3].kind), f4 \in FilesOf(Registry[4].kind),
          f5 \in FilesOf(Registry[5].kind) :
          files = <<f1, f2, f3, f4, f5>>
    /\ order \in Orders
    /\ done = 0
    /\ aggregate = <<>>
    /\ artifact = NoArtifact
    /\ verdict = NoError
    /\ status = 0
    /\ pc = "convert"
    /\ NoHeap

\* process.js invokes the next converter and merges its result under the
\* converter's contract-type name; a converter that throws ends process.js
InvokeConverter ==
    /\ pc = "convert"
    /\ done < Len(Registry)
    /\ LET i == order[done + 1]
           o == ConvertFile(Registry[i].kind, files[i])
       IN IF o.thrown
          THEN /\ pc' = "aborted"
               /\ UNCHANGED <<done, aggregate>>
          ELSE /\ aggregate' = Append(aggregate,
                                      [name |-> Registry[i].name, levels |-> o.result])
               /\ done' = done + 1
               /\ pc' = pc
    /\ UNCHANGED convVars
    /\ UNCHANGED heapVars
    /\ UNCHANGED <<files, order, artifact, verdict, status, dataset>>

\* process.js writes the merged output to contracts.json
WriteArtifact ==
    /\ pc = "convert"
    /\ done = Len(Registry)
    /\ artifact' = [exists |-> TRUE, data |-> SerializedData(aggregate)]
    /\ pc' = "written"
    /\ UNCHANGED convVars
    /\ UNCHANGED heapVars
    /\ UNCHANGED <<files, order, done, aggregate, verdict, status, dataset>>

\* execSync("node process.js") raises when process.js failed: the catch
\* block of runTests ends the run
TestAfterAbort ==
    /\ pc = "aborted"
    /\ verdict' = Err("process-failed", "", <<>>, -1)
    /\ status' = ExitStatus(verdict')
    /\ pc' = "done"
    /\ UNCHANGED convVars
    /\ UNCHANGED heapVars
    /\ UNCHANGED <<files, order, done, aggregate, artifact, dataset>>

\* steps 2 to 8 of runTests on the file process.js wrote
TestValidate ==
    /\ pc = "written"
    /\ verdict' = runTests(artifact)
    /\ status' = ExitStatus(verdict')
    /\ pc' = "done"
    /\ UNCHANGED convVars
    /\ UNCHANGED heapVars
    /\ UNCHANGED <<files, order, done, aggregate, artifact, dataset>>

Next == InvokeConverter \/ WriteArtifact \/ TestAfterAbort \/ TestValidate

Spec == Init /\ [][Next]_vars

-----------------------------------------------------------------------------
(* The catalog converters on a heap (SpecHeap): objects and arrays have an  *)
(* identity, `result` holds references, and the caller mutates the lists it *)
(* got back.                                                                *)

MaxMutations == 1

\* contract.json of the runs on the heap
HeapContractFiles ==
    { <<CatCons(Null)>>,
      <<CatCons(Null), CatCons(Str(IsoD2))>>,
      <<CatCons(Null), CatSub(Null)>> }

\* subscription.json of the runs on the heap, its keys in Object.keys order
HeapSubscriptionFiles ==
    { << [power |-> <<"6">>, entries |-> <<CatSub(Null)>>] >>,
      << [power |-> <<"6">>, entries |-> <<CatSub(Null)>>],
         [power |-> <<"9">>, entries |-> <<CatSub(Null)>>] >>,
      << [power |-> <<"6">>, entries |-> <<CatSub(Null), CatSub(Str(IsoD2))>>],
         [power |-> <<"9">>, entries |-> <<>>] >> }

\* ids of n objects allocated after the first k
FreshIds(k, n) == [i \in 1..n |-> k + i]

\* JSON.parse of subscription.json: one array of fresh objects per key
RECURSIVE ParseTable(_, _)
ParseTable(table, h) ==
    IF table = <<>> THEN h
    ELSE ParseTable(Tail(table),
            [objects |-> h.objects \o Head(table).entries,
             arrays  |-> Append(h.arrays,
                                FreshIds(Len(h.objects), Len(Head(table).entries)))])

\* JSON.parse of contract.json (array 1), then of subscription.json
\* (array 1 + k for its k-th key)
ParseCatalog(contractData, table) ==
    ParseTable(table, [objects |-> contractData,
                       arrays  |-> <<FreshIds(0, Len(contractData))>>])

\* a variant of CopyEntries that hands out the entries themselves
ShareEntries(objs, ids) == [objects |-> objs, ids |-> ids]

\* contractData.map((priceEntry) => ({ ...priceEntry })): a fresh object
\* per entry, with the entry's fields
CopyEntries(objs, ids) ==
    [objects |-> objs \o [i \in 1..Len(ids) |-> objs[ids[i]]],
     ids     |-> FreshIds(Len(objs), Len(ids))]

\* one call of the forEach callback: key holds the power level and the
\* array of its subscription entries (0 in the variant, which has none)
HeapStep(key, h) ==
    LET c    == CopyEntries(h.objects, h.arrays[1])
        subs == IF key.sub = 0 THEN <<>> ELSE h.arrays[key.sub]
    IN [objects |-> c.objects,
        arrays  |-> Append(h.arrays, c.ids \o subs),
        refs    |-> (key.power :> (Len(h.arrays) + 1)) @@ h.refs]

\* subscribedPowers.forEach, the heap h being evaluated once per call
RECURSIVE HeapForEach(_, _)
HeapForEach(keys, h) ==
    IF keys = <<>> THEN h
    ELSE CHOOSE r \in {HeapForEach(Tail(keys), HeapStep(Head(keys), hv)) : hv \in {h}} :
            TRUE

\* the literal list of the variant, in its order
PowerSeq == [i \in 1..(MaxPower - MinPower + 1) |->
                [power |-> PowerText(MinPower + i - 1), sub |-> 0]]

\* the list a power level refers to, by value
View(power) ==
    [i \in 1..Len(arrays[refs[power]]) |-> objects[arrays[refs[power]][i]]]

\* an object of the caller
CallerRecord ==
    PriceObject(Lit("base"), Consumption, Str(IsoD2), Null, Num(1), Null, Null)

InitHeap ==
    /\ conv \in {"catalog", "catalogNoSub"}
    /\ header = {} /\ lastRow = NoRow /\ added = 0 /\ nRows = 0
    /\ result = EmptyObject /\ cpc = "start"
    /\ IdleRun
    /\ \E cd \in HeapContractFiles, table \in HeapSubscriptionFiles :
          LET sd == IF conv = "catalog" THEN table ELSE <<>>
              h  == ParseCatalog(cd, sd)
          IN /\ catalogIn = [contract |-> cd,
                             subscription |-> [p \in {sd[k].power : k \in 1..Len(sd)} |->
                                  sd[CHOOSE k \in 1..Len(sd) : sd[k].power = p].entries]]
             /\ objects = h.objects
             /\ arrays = h.arrays
    /\ refs = EmptyObject /\ snapshot = EmptyObject
    /\ touched = {} /\ nMut = 0 /\ hpc = "start"

\* the converter builds `result` and returns it
HeapConvert ==
    /\ hpc = "start"
    /\ LET keys == IF conv = "catalog"
                   THEN [k \in 1..(Len(arrays) - 1) |->
                            [power |-> (CHOOSE p \in DOMAIN catalogIn.subscription :
                                          Cardinality({q \in DOMAIN catalogIn.subscription :
                                                        DigitsValue(q) < DigitsValue(p)}) = k - 1),
                             sub |-> k + 1]]
                   ELSE PowerSeq
           h == HeapForEach(keys, [objects |-> objects, arrays |-> arrays,
                                   refs |-> EmptyObject])
       IN /\ objects' = h.objects
          /\ arrays' = h.arrays
          /\ refs' = h.refs
          /\ snapshot' = [p \in DOMAIN h.refs |->
                            [i \in 1..Len(h.arrays[h.refs[p]]) |->
                                h.objects[h.arrays[h.refs[p]][i]]]]
    /\ hpc' = "returned"
    /\ UNCHANGED <<touched, nMut>>
    /\ UNCHANGED convVars
    /\ UNCHANGED runVars

\* the caller appends an object to the list of a power level
MutatePush ==
    /\ hpc = "returned" /\ nMut < MaxMutations
    /\ \E p \in DOMAIN refs :
          /\ objects' = Append(objects, CallerRecord)
          /\ arrays' = [arrays EXCEPT ![refs[p]] = Append(@, Len(objects) + 1)]
          /\ touched' = touched \cup {p}
    /\ nMut' = nMut + 1
    /\ UNCHANGED <<refs, snapshot, hpc>>
    /\ UNCHANGED convVars
    /\ UNCHANGED runVars

\* the caller removes an element of the list of a power level
MutateRemove ==
    /\ hpc = "returned" /\ nMut < MaxMutations
    /\ \E p \in DOMAIN refs :
          \E i \in 1..Len(arrays[refs[p]]) :
              /\ arrays' = [arrays EXCEPT ![refs[p]] =
                               SubSeq(@, 1, i - 1) \o SubSeq(@, i + 1, Len(@))]
              /\ touched' = touched \cup {p}
    /\ nMut' = nMut + 1
    /\ UNCHANGED <<objects, refs, snapshot, hpc>>
    /\ UNCHANGED convVars
    /\ UNCHANGED runVars

\* the caller replaces an element of the list of a power level
MutateReplace ==
    /\ hpc = "returned" /\ nMut < MaxMutations
    /\ \E p \in DOMAIN refs :
          \E i \in 1..Len(arrays[refs[p]]) :
              /\ objects' = Append(objects, CallerRecord)
              /\ arrays' = [arrays EXCEPT ![refs[p]][i] = Len(objects) + 1]
              /\ touched' = touched \cup {p}
    /\ nMut' = nMut + 1
    /\ UNCHANGED <<refs, snapshot, hpc>>
    /\ UNCHANGED convVars
    /\ UNCHANGED runVars

\* the caller changes a field of a consumption record of a power level
MutateField ==
    /\ hpc = "returned" /\ nMut < MaxMutations
    /\ \E p \in DOMAIN refs :
          \E i \in 1..Len(arrays[refs[p]]) :
              /\ objects[arrays[refs[p]][i]].price_type = Consumption
              /\ objects' = [objects EXCEPT ![arrays[refs[p]][i]].price = Num(0)]
              /\ touched' = touched \cup {p}
    /\ nMut' = nMut + 1
    /\ UNCHANGED <<arrays, refs, snapshot, hpc>>
    /\ UNCHANGED convVars
    /\ UNCHANGED runVars

NextHeap ==
    \/ HeapConvert
    \/ MutatePush
    \/ MutateRemove
    \/ MutateReplace
    \/ MutateField

SpecHeap == InitHeap /\ [][NextHeap]_vars

-----------------------------------------------------------------------------
(* Properties of the converters' output (SpecConv) *)

IsConsumption(r)  == r.price_type = Consumption
IsSubscription(r) == r.price_type = Subscription
DateRange(r)      == <<r.start_date, r.end_date>>

\* every date range of a consumption record is the date range of a
\* subscription record of the same list
CoverageParity(prices) ==
    \A i \in 1..Len(prices) :
        IsConsumption(prices[i]) =>
            \E j \in 1..Len(prices) :
                /\ IsSubscription(prices[j])
                /\ DateRange(prices[j]) = DateRange(prices[i])

\* the entries a catalog converter reads for one power level
CatalogInputFor(power) ==
    IF conv = "catalog"
    THEN catalogIn.contract \o catalogIn.subscription[power]
    ELSE catalogIn.contract

\* C1 (as stated): the output of every converter type, the two catalog
\* converters included, has coverage parity at every power level.
C1_ParityEveryConverter ==
    cpc = "returned" =>
        \A power \in DOMAIN result : CoverageParity(result[power])

\* C1 (amended): the output of the three tabular converters has coverage
\* parity at every power level, after every row; the output of a catalog
\* converter has it at a power level exactly when the entries it read for
\* that power level have it.
C1_ParityTabularConverters ==
    /\ conv \in TabularKinds =>
          \A power \in DOMAIN result : CoverageParity(result[power])
    /\ (conv \notin TabularKinds /\ cpc = "returned") =>
          \A power \in DOMAIN result :
              CoverageParity(result[power]) <=> CoverageParity(CatalogInputFor(power))

\* a flat-rate run that returned two rows of one power level, one of them
\* with an end date
C1_Witness ==
    /\ conv = "flat" /\ cpc = "returned"
    /\ \E power \in DOMAIN result :
          /\ Len(result[power]) = 4
          /\ \E i \in 1..4 : result[power][i].end_date = Str(IsoD2)
          /\ \E i \in 1..4 : result[power][i].end_date = Null

\* C2: every record a converter emits carries a contract value of the
\* validator's enumeration validContracts.
C2_ContractsKnownToValidator ==
    \A power \in DOMAIN result :
        \A i \in 1..Len(result[power]) :
            result[power][i].contract \in validContracts

\* the cells the claim C10 names are all non-empty
RowComplete(row) ==
    /\ row.power # <<>> /\ row.start # <<>> /\ row.fixe # <<>>
    /\ \A i \in 1..Len(row.prices) : row.prices[i] # <<>>

\* the records the most recent row appended to its power level
LastAdded ==
    IF added = 0 THEN <<>>
    ELSE LET l == result[lastRow.power]
         IN SubSeq(l, Len(l) - added + 1, Len(l))

\* C10: a data row of a tabular converter contributes records if and only
\* if its power level, start date, price cells and subscription cell are
\* all non-empty; a row failing this contributes nothing and raises no
\* error; an empty end date gives end_date = null on the row's records.
C10_RowContributesIffComplete ==
    (conv \in TabularKinds /\ nRows > 0) =>
        /\ RowComplete(lastRow) <=> added > 0
        /\ ~RowComplete(lastRow) => cpc # "thrown"
        /\ (RowComplete(lastRow) /\ lastRow.end = <<>>) =>
              \A i \in 1..Len(LastAdded) : LastAdded[i].end_date = Null

\* the same statement for the rows whose non-empty dates hold a "/"
C10_HoldsForSlashedDates ==
    (conv \in TabularKinds /\ nRows > 0
       /\ lastRow.start # NoSlashDate /\ lastRow.end # NoSlashDate) =>
        /\ RowComplete(lastRow) <=> added > 0
        /\ cpc # "thrown"
        /\ (RowComplete(lastRow) /\ lastRow.end = <<>>) =>
              /\ added > 0
              /\ \A i \in 1..Len(LastAdded) : LastAdded[i].end_date = Null

-----------------------------------------------------------------------------
(* Properties of the validator (SpecVal) *)

\* the power-level entries of the file: <<number of the contract type, power>>
FileLevels ==
    UNION {{<<i, power>> : power \in DOMAIN artifact.data[i].levels} :
              i \in 1..Len(artifact.data)}

PricesAt(l) == artifact.data[l[1]].levels[l[2]]
NameAt(l)   == artifact.data[l[1]].name

\* l comes before m in the validator's walk
WalkBefore(l, m) ==
    \/ l[1] < m[1]
    \/ l[1] = m[1] /\ DigitsValue(l[2]) < DigitsValue(m[2])

Validated == pc = "done" /\ dataset # NoDataset

FieldKinds ==
    {"missing-field", "contract-not-string", "contract-value", "price_type",
     "currency", "price", "start_date", "end_date"}

ShapeKinds ==
    {"base-hour_slots", "base-day_type", "peak-off-peak-hour_slots",
     "peak-off-peak-day_type", "tempo-day_type", "tempo-hour_slots"}

\* the shape rules of the specification, by kind of contract type
FlatShape(r)   == r.hour_slots = Null /\ r.day_type = Null
DualShape(r)   == /\ r.hour_slots \in {Lit("TO_REPLACE_PEAK"), Lit("TO_REPLACE_OFF_PEAK")}
                  /\ r.day_type = Null
TieredShape(r) == /\ r.day_type \in {Lit("blue"), Lit("white"), Lit("red")}
                  /\ r.hour_slots.t = "string" /\ r.hour_slots.s # <<>>

\* alpiq-base is a flat-rate contract type, as edf-base is
ShapeRuleHolds(name, r) ==
    CASE name \in {"edf-base", "alpiq-base"} -> FlatShape(r)
      [] name = "edf-peak-off-peak"          -> DualShape(r)
      [] name = "edf-tempo"                  -> TieredShape(r)
      [] OTHER                               -> TRUE

ShapeRespected(names) ==
    \A l \in FileLevels :
        NameAt(l) \in names =>
            \A k \in 1..Len(PricesAt(l)) :
                IsConsumption(PricesAt(l)[k]) => ShapeRuleHolds(NameAt(l), PricesAt(l)[k])

\* C4 (as stated): an output the validator accepts respects the shape rule
\* of its kind in every contract type, flat-rate alpiq-base included.
C4_ShapeRuleEveryContractType ==
    (Validated /\ verdict = Pass) =>
        ShapeRespected({"edf-base", "edf-peak-off-peak", "edf-tempo", "alpiq-base"})

\* C4 (amended): an output the validator accepts respects the shape rule in
\* the contract types named edf-base, edf-peak-off-peak and edf-tempo, and
\* a shape error is raised only for a record of one of these three.
C4_ShapeRuleEdfContractTypes ==
    Validated =>
        /\ verdict = Pass =>
              ShapeRespected({"edf-base", "edf-peak-off-peak", "edf-tempo"})
        /\ verdict.kind \in ShapeKinds =>
              ~ShapeRespected({"edf-base", "edf-peak-off-peak", "edf-tempo"})

\* the validator accepted a file whose edf-peak-off-peak consumption records
\* carry an hour-slot placeholder
C4_Witness ==
    /\ Validated /\ verdict = Pass
    /\ \E l \in FileLevels :
          /\ NameAt(l) = "edf-peak-off-peak"
          /\ \E k \in 1..Len(PricesAt(l)) :
                IsConsumption(PricesAt(l)[k]) /\ PricesAt(l)[k].hour_slots # Null

\* C5: an output the validator accepts has, at every power-level entry, at
\* least one record and at least one subscription record.
C5_EveryLevelHasSubscription ==
    (Validated /\ verdict = Pass) =>
        \A l \in FileLevels :
            /\ Len(PricesAt(l)) >= 1
            /\ \E k \in 1..Len(PricesAt(l)) : IsSubscription(PricesAt(l)[k])

\* the validator accepted a file with a power level holding consumption and
\* subscription records
C5_Witness ==
    /\ Validated /\ verdict = Pass
    /\ \E l \in FileLevels :
          /\ \E k \in 1..Len(PricesAt(l)) : IsSubscription(PricesAt(l)[k])
          /\ \E k \in 1..Len(PricesAt(l)) : IsConsumption(PricesAt(l)[k])

\* C6: an output the validator accepts has coverage parity at every power
\* level, end_date = null counting as a value of the pair.
C6_AcceptedHasCoverageParity ==
    (Validated /\ verdict = Pass) =>
        \A l \in FileLevels : CoverageParity(PricesAt(l))

\* the validator accepted a file with a consumption record that has an end
\* date
C6_Witness ==
    /\ Validated /\ verdict = Pass
    /\ \E l \in FileLevels :
          \E k \in 1..Len(PricesAt(l)) :
              IsConsumption(PricesAt(l)[k]) /\ PricesAt(l)[k].end_date # Null

\* C7: an output the validator accepts holds no subscription record with
\* hour_slots or day_type other than null or with a price not above 0.
C7_AcceptedSubscriptionsWellFormed ==
    (Validated /\ verdict = Pass) =>
        \A l \in FileLevels : \A k \in 1..Len(PricesAt(l)) :
            IsSubscription(PricesAt(l)[k]) =>
                /\ PricesAt(l)[k].hour_slots = Null
                /\ PricesAt(l)[k].day_type = Null
                /\ PricesAt(l)[k].price.t = "number"
                /\ PricesAt(l)[k].price.n > 0

\* the validator accepted a file with a subscription record in a contract
\* type that has no shape rule
C7_Witness ==
    /\ Validated /\ verdict = Pass
    /\ \E l \in FileLevels :
          /\ NameAt(l) = "alpiq-base"
          /\ \E k \in 1..Len(PricesAt(l)) : IsSubscription(PricesAt(l)[k])

\* record k of level l breaks a per-record check, a subscription check, a
\* shape rule or coverage parity
RecordViolates(l, k) ==
    LET r == PricesAt(l)[k]
    IN \/ validatePriceObject(r) # "ok"
       \/ IsSubscription(r) /\ SubscriptionCheck(r) # "ok"
       \/ IsConsumption(r) /\ ConsumptionCheck(r, NameAt(l)) # "ok"
       \/ IsConsumption(r) /\
             ~\E j \in 1..Len(PricesAt(l)) :
                 /\ IsSubscription(PricesAt(l)[j])
                 /\ DateRange(PricesAt(l)[j]) = DateRange(r)

\* C8 (as stated): the error of a validation that fails on a per-record
\* check, a cross-record invariant or a shape rule names the contract type,
\* the power level and the record index of the first violating record in
\* walk order.
C8_ErrorNamesFirstViolatingRecord ==
    (Validated /\ verdict.kind \in FieldKinds \cup SubscriptionKinds
                                  \cup ShapeKinds \cup {"parity"}) =>
        \E l \in FileLevels :
            /\ NameAt(l) = verdict.ct /\ l[2] = verdict.power
            /\ verdict.index + 1 \in 1..Len(PricesAt(l))
            /\ RecordViolates(l, verdict.index + 1)
            /\ \A k \in 1..verdict.index : ~RecordViolates(l, k)
            /\ \A m \in FileLevels :
                  WalkBefore(m, l) =>
                      \A k \in 1..Len(PricesAt(m)) : ~RecordViolates(m, k)

\* C8 (amended): the error of a failed validation is the first in the
\* validator's check order.  A per-record field error names the contract
\* type, the power level and the index of the first record of that level
\* failing a field check, no earlier level having any error; every other
\* error names no record index: an empty-list or coverage-parity error
\* names contract type and power level, a subscription or missing-contract
\* error the contract type only, a shape error neither; a missing-contract
\* or coverage-parity error is raised only when no power level of the file
\* has an error of the first walk.
C8_ErrorNamesPlaceByKind ==
    (Validated /\ verdict # Pass) =>
        /\ verdict.kind \in FieldKinds =>
              \E l \in FileLevels :
                  /\ NameAt(l) = verdict.ct /\ l[2] = verdict.power
                  /\ verdict.index + 1 \in 1..Len(PricesAt(l))
                  /\ validatePriceObject(PricesAt(l)[verdict.index + 1]) = verdict.kind
                  /\ \A k \in 1..verdict.index :
                        validatePriceObject(PricesAt(l)[k]) = "ok"
                  /\ \A m \in FileLevels :
                        WalkBefore(m, l) =>
                            /\ PricesAt(m) # <<>>
                            /\ \A k \in 1..Len(PricesAt(m)) :
                                  validatePriceObject(PricesAt(m)[k]) = "ok"
                            /\ validateContractSpecificRequirements(PricesAt(m), NameAt(m)) = "ok"
        /\ verdict.kind \notin FieldKinds => verdict.index = -1
        /\ verdict.kind \in {"empty", "parity"} =>
              \E l \in FileLevels : NameAt(l) = verdict.ct /\ l[2] = verdict.power
        /\ verdict.kind \in SubscriptionKinds \cup {"missing-contract"} =>
              verdict.ct # "" /\ verdict.power = <<>>
        /\ verdict.kind \in ShapeKinds => verdict.ct = "" /\ verdict.power = <<>>
        /\ verdict.kind \in {"missing-contract", "parity"} =>
              \A m \in FileLevels :
                  /\ PricesAt(m) # <<>>
                  /\ \A k \in 1..Len(PricesAt(m)) :
                        validatePriceObject(PricesAt(m)[k]) = "ok"
                  /\ validateContractSpecificRequirements(PricesAt(m), NameAt(m)) = "ok"

\* the validator reported the second record of a power level, the first
\* one being valid
C8_Witness ==
    /\ Validated /\ verdict.kind = "currency" /\ verdict.index = 1
    /\ verdict.power = <<"9">>

\* the per-record rule of the claim C9; an absent end_date counts as null
RecordWellFormed(r) ==
    /\ \A i \in 1..Len(requiredFields) : HasField(r, requiredFields[i])
    /\ r.contract \in validContracts
    /\ r.price_type \in {Consumption, Subscription}
    /\ r.currency = Lit("euro")
    /\ r.price.t = "number" /\ r.price.n >= 0
    /\ r.start_date.t = "string" /\ dateRegexTest(r.start_date)
    /\ \/ r.end_date \in {Null, Undefined}
       \/ r.end_date.t = "string" /\ dateRegexTest(r.end_date)

\* C9: the validator rejects every file holding a record that breaks the
\* per-record rule, and a per-record error is raised only for a record that
\* breaks it.
C9_PerRecordRule ==
    Validated =>
        /\ verdict = Pass =>
              \A l \in FileLevels : \A k \in 1..Len(PricesAt(l)) :
                  RecordWellFormed(PricesAt(l)[k])
        /\ verdict.kind \in FieldKinds =>
              \E l \in FileLevels : \E k \in 1..Len(PricesAt(l)) :
                  ~RecordWellFormed(PricesAt(l)[k])

\* the same statement with the end_date rule the code applies: any falsy
\* end_date (null, absent, "", 0) is let through
RecordWellFormedFalsyEnd(r) ==
    /\ \A i \in 1..Len(requiredFields) : HasField(r, requiredFields[i])
    /\ r.contract \in validContracts
    /\ r.price_type \in {Consumption, Subscription}
    /\ r.currency = Lit("euro")
    /\ r.price.t = "number" /\ r.price.n >= 0
    /\ r.start_date.t = "string" /\ dateRegexTest(r.start_date)
    /\ \/ ~Truthy(r.end_date)
       \/ r.end_date.t = "string" /\ dateRegexTest(r.end_date)

C9_HoldsWithFalsyEnd ==
    Validated =>
        /\ verdict = Pass =>
              \A l \in FileLevels : \A k \in 1..Len(PricesAt(l)) :
                  RecordWellFormedFalsyEnd(PricesAt(l)[k])
        /\ verdict.kind \in FieldKinds =>
              \E l \in FileLevels : \E k \in 1..Len(PricesAt(l)) :
                  ~RecordWellFormedFalsyEnd(PricesAt(l)[k])

-----------------------------------------------------------------------------
(* Properties of a run of the pipeline (Spec) *)

Finished == pc = "done" /\ files # <<>>

SomeConverterThrows ==
    \E i \in 1..Len(Registry) : ConvertFile(Registry[i].kind, files[i]).thrown

\* C3 (as stated): at the end of a run the artifact exists only if every
\* converter returned and the validator found no violation; when a
\* converter throws or a validation rule fails, no artifact is committed
\* and the process status is non-zero.
C3_NoArtifactAfterFailure ==
    Finished =>
        /\ artifact.exists => (~SomeConverterThrows /\ verdict = Pass)
        /\ (SomeConverterThrows \/ verdict # Pass) =>
              (~artifact.exists /\ status # 0)

\* C3 (amended): at the end of a run the artifact exists exactly when every
\* converter returned, and then it holds every registered contract type;
\* the process status is zero exactly when, in addition, the validator
\* accepted the file: a failed validation leaves the written file on disk.
C3_ArtifactIffConvertersReturned ==
    Finished =>
        /\ artifact.exists <=> ~SomeConverterThrows
        /\ artifact.exists =>
              {artifact.data[i].name : i \in 1..Len(artifact.data)}
                 = {Registry[i].name : i \in 1..Len(Registry)}
        /\ status = 0 <=> (~SomeConverterThrows /\ runTests(artifact) = Pass)
        /\ SomeConverterThrows => (~artifact.exists /\ status # 0)

\* a run whose validation failed on a subscription price of 0, the file
\* being on disk
C3_Witness ==
    /\ Finished /\ artifact.exists /\ status = 1
    /\ verdict.kind = "subscription-price"
    /\ ~SomeConverterThrows

-----------------------------------------------------------------------------
(* Properties of the tabular converters, continued (SpecConv) *)

HeaderRead == conv \in TabularKinds /\ cpc # "start"

\* C11: when the header line lacks a required column the converter raises
\* before it reads a data row: it emits no record and returns no result; a
\* complete header does not make it raise.
C11_MissingHeaderFailsFast ==
    HeaderRead =>
        /\ RequiredColumns(conv) \ header # {} =>
              /\ cpc = "thrown"
              /\ nRows = 0 /\ added = 0
              /\ result = EmptyObject
        /\ (cpc = "thrown" /\ nRows = 0) => RequiredColumns(conv) \ header # {}

\* the tiered converter raised on a header without one of its six price
\* columns
C11_Witness ==
    /\ conv = "tiered" /\ cpc = "thrown" /\ nRows = 0
    /\ header = RequiredColumns("tiered") \ {"PART_VARIABLE_HPRouge_TTC"}

\* a date cell is malformed when it is non-empty and holds no "/"
Malformed(cs) == cs # <<>> /\ Len(SplitSlash(cs)) = 1

\* C12: in the flat-rate converter a complete row with a malformed date
\* does not make the converter raise: the row's two records are emitted,
\* the malformed date being null on both.
C12_MalformedDateGivesNull ==
    (conv = "flat" /\ nRows > 0 /\ RowComplete(lastRow)
       /\ (Malformed(lastRow.start) \/ Malformed(lastRow.end))) =>
        /\ cpc # "thrown"
        /\ added = 2
        /\ \A i \in 1..Len(LastAdded) :
              /\ Malformed(lastRow.start) => LastAdded[i].start_date = Null
              /\ Malformed(lastRow.end)   => LastAdded[i].end_date = Null

\* what the flat-rate converter does on such a row: it raises, the row adds
\* no record and no result is returned
C12_MalformedDateRaises ==
    (conv = "flat" /\ nRows > 0 /\ RowComplete(lastRow)
       /\ (Malformed(lastRow.start) \/ Malformed(lastRow.end))) =>
        /\ cpc = "thrown"
        /\ added = 0

\* a row is well-formed when it is complete and its non-empty dates hold
\* their "/" separators
WellFormedRow(row) ==
    RowComplete(row) /\ ~Malformed(row.start) /\ ~Malformed(row.end)

\* the seven records of one tiered row: one consumption record for each
\* day type and each of the two slot lists, one subscription record without
\* slots and day type, all with the same dates
TieredBlock(recs) ==
    /\ Len(recs) = 7
    /\ \A d \in {Lit("blue"), Lit("white"), Lit("red")} :
          \A h \in {peakSlots, offPeakSlots} :
              Cardinality({i \in 1..7 : /\ IsConsumption(recs[i])
                                         /\ recs[i].day_type = d
                                         /\ recs[i].hour_slots = h}) = 1
    /\ Cardinality({i \in 1..7 : IsSubscription(recs[i])}) = 1
    /\ \A i \in 1..7 :
          /\ IsSubscription(recs[i]) =>
                recs[i].hour_slots = Null /\ recs[i].day_type = Null
          /\ DateRange(recs[i]) = DateRange(recs[1])

\* C13: every well-formed row of the tiered converter adds exactly 7
\* records to its power level, the 6 consumption records of the day types
\* and slot lists and one subscription record, with the row's dates; the
\* list of a power level is a sequence of such blocks of 7.
C13_TieredRowAddsSeven ==
    conv = "tiered" =>
        /\ (nRows > 0 /\ WellFormedRow(lastRow)) =>
              /\ added = 7
              /\ TieredBlock(LastAdded)
              /\ LastAdded[1].start_date = convertToIsoDate(lastRow.start).v
              /\ LastAdded[1].end_date = EndDateIso(lastRow.end).v
        /\ \A power \in DOMAIN result :
              /\ Len(result[power]) % 7 = 0
              /\ Len(result[power]) >= 7
              /\ \A b \in 0..((Len(result[power]) \div 7) - 1) :
                    TieredBlock(SubSeq(result[power], 7 * b + 1, 7 * b + 7))

\* two well-formed rows of one power level: its list holds 14 records
C13_Witness ==
    /\ conv = "tiered" /\ nRows = 2 /\ WellFormedRow(lastRow)
    /\ Len(result[lastRow.power]) = 14

-----------------------------------------------------------------------------
(* Dual-rate conversion (SpecConv) *)

\* the three records of the claim C14 for the last row read
DualRowRecords ==
    /\ added = 3
    /\ LET r == LastAdded
       IN /\ IsConsumption(r[1]) /\ r[1].hour_slots = Lit("TO_REPLACE_OFF_PEAK")
          /\ r[1].price = ScaledPrice(lastRow.prices[1])
          /\ IsConsumption(r[2]) /\ r[2].hour_slots = Lit("TO_REPLACE_PEAK")
          /\ r[2].price = ScaledPrice(lastRow.prices[2])
          /\ IsSubscription(r[3]) /\ r[3].hour_slots = Null
          /\ r[3].price = MonthlyScaledPrice(lastRow.fixe)
          /\ \A i \in 1..3 :
                /\ r[i].day_type = Null
                /\ DateRange(r[i]) = DateRange(r[1])
          /\ (lastRow.prices = <<OffPeakCell, PeakCell>> /\ lastRow.fixe = FixeCell) =>
                <<r[1].price, r[2].price, r[3].price>>
                   = <<Num(1234), Num(2345), Num(100000)>>

\* C14: every complete data row of the dual-rate converter appends exactly
\* 3 records to its power level, in the order off-peak consumption, peak
\* consumption, subscription, with the row's prices (the annual fee divided
\* by 12), day_type = null and one pair of dates.
C14_CompleteRowAddsThree ==
    (conv = "dual" /\ nRows > 0 /\ RowComplete(lastRow)) => DualRowRecords

\* the same statement for the complete rows whose dates hold their "/"
C14_HoldsForWellFormedRows ==
    (conv = "dual" /\ nRows > 0 /\ WellFormedRow(lastRow)) => DualRowRecords

-----------------------------------------------------------------------------
(* Static-catalog composition (SpecConv) *)

CatalogReturned == conv = "catalog" /\ cpc = "returned"

\* C15: the catalog converter's output has exactly the power-level keys of
\* the subscription table; the list of a key is the shared entry list of
\* contract.json, same entries in the same order, followed by the
\* subscription entries of that key, same entries in the same order.
C15_CatalogComposition ==
    CatalogReturned =>
        /\ DOMAIN result = DOMAIN catalogIn.subscription
        /\ \A power \in DOMAIN result :
              LET n == Len(catalogIn.contract)
                  m == Len(catalogIn.subscription[power])
              IN /\ Len(result[power]) = n + m
                 /\ \A i \in 1..n : result[power][i] = catalogIn.contract[i]
                 /\ \A j \in 1..m :
                       result[power][n + j] = catalogIn.subscription[power][j]

\* two power levels with different subscription entries behind a shared
\* list of two entries
C15_Witness ==
    /\ CatalogReturned
    /\ Len(catalogIn.contract) = 2
    /\ \E p, q \in DOMAIN result :
          /\ catalogIn.subscription[p] # catalogIn.subscription[q]
          /\ catalogIn.subscription[p] # <<>>
          /\ catalogIn.subscription[q] # <<>>

-----------------------------------------------------------------------------
(* Static-catalog isolation (SpecHeap) *)

\* the lists on the heap hold the values the converter computes
HeapAgreesWithValues ==
    (hpc = "returned" /\ nMut = 0) =>
        /\ conv = "catalog" =>
              snapshot = CatalogResult(catalogIn.contract, catalogIn.subscription)
        /\ conv = "catalogNoSub" => snapshot = CatalogNoSubResult(catalogIn.contract)
        /\ \A p \in DOMAIN refs : View(p) = snapshot[p]

\* C16: after a catalog converter (or its variant) returned, adding,
\* removing or replacing an element of the list of one power level, or
\* changing a field of one of its consumption records, leaves the list and
\* the records of every other power level as they were returned.
C16_OtherLevelsUnchanged ==
    hpc = "returned" =>
        \A p \in DOMAIN refs \ touched : View(p) = snapshot[p]

\* the caller changed the price of a consumption record of one power level
\* of the catalog converter, another power level holding a copy of it
C16_Witness ==
    /\ hpc = "returned" /\ conv = "catalog"
    /\ \E p \in touched :
          /\ Len(View(p)) = Len(snapshot[p])
          /\ \E i \in 1..Len(View(p)) :
                /\ View(p)[i].price = Num(0)
                /\ \E q \in DOMAIN refs \ touched : snapshot[q][i] = snapshot[p][i]

-----------------------------------------------------------------------------
(* Order independence of the pipeline (Spec) *)

\* what converter i yields on its own input file, run alone
AloneResult(i) == ConvertFile(Registry[i].kind, files[i]).result

-----------------------------------------------------------------------------
(* Expected contract types (SpecVal) *)

\* the expected contract-type names the file lacks
MissingExpected ==
    {name \in {"edf-base", "edf-peak-off-peak", "edf-tempo"} :
        \A i \in 1..Len(artifact.data) : artifact.data[i].name # name}

\* every power level present passes the checks of the structural walk
WalkClean ==
    \A l \in FileLevels :
        /\ PricesAt(l) # <<>>
        /\ \A k \in 1..Len(PricesAt(l)) : validatePriceObject(PricesAt(l)[k]) = "ok"
        /\ validateContractSpecificRequirements(PricesAt(l), NameAt(l)) = "ok"

\* C18: the validator fails every output that lacks one of edf-base,
\* edf-peak-off-peak, edf-tempo; when what is present passes the structural
\* walk the error is the missing contract type, a coverage-parity violation
\* notwithstanding, and this error is raised in no other case.
C18_MissingExpectedContractFails ==
    Validated =>
        /\ MissingExpected # {} => verdict # Pass
        /\ (MissingExpected # {} /\ WalkClean) =>
              /\ verdict.kind = "missing-contract"
              /\ verdict.ct \in MissingExpected
        /\ verdict.kind = "missing-contract" => (MissingExpected # {} /\ WalkClean)

\* the validator reported the missing edf-tempo for a file whose edf-base
\* power level has a consumption date range without subscription record
C18_Witness ==
    /\ Validated /\ verdict.kind = "missing-contract" /\ verdict.ct = "edf-tempo"
    /\ \E l \in FileLevels :
          /\ NameAt(l) = "edf-base"
          /\ ~CoverageParity(PricesAt(l))

=============================================================================
